---- MODULE Spec2Model ----
(***************************************************************************)
(* Model of the cost pre-processing pipeline of the capacity-expansion     *)
(* notebook, src/gasunie-workshop/02-pypsa-investment.ipynb.               *)
(*                                                                         *)
(* The program is the notebook's kernel session: the state is the value    *)
(* bound to each notebook name (costs, annuity), the position of the       *)
(* top-to-bottom execution (pc, named after the source line of the next    *)
(* statement) and the exception that stopped it (err).  Each statement of  *)
(* the pre-processing cells is one step; an exception aborts the run and   *)
(* leaves the names bound as they were at that moment.                     *)
(*                                                                         *)
(* Numbers are exact non-negative rationals over arbitrary-precision       *)
(* naturals, extended by the two IEEE values the code can produce from     *)
(* them (NaN, Inf); float rounding is not modelled.  Values are kept       *)
(* non-negative and lifetimes whole, as in the table the notebook reads.   *)
(***************************************************************************)
EXTENDS Integers, Sequences, FiniteSets, TLC

(***************************************************************************)
(* Arbitrary-precision naturals: little-endian sequences of limbs in       *)
(* [0, LimbBase), without leading zero limbs; <<>> is zero.                *)
(***************************************************************************)
LimbBase == 100 * 100

RECURSIVE BigNorm(_)
BigNorm(a) ==
  IF a = <<>> THEN <<>>
  ELSE IF a[Len(a)] = 0 THEN BigNorm(SubSeq(a, 1, Len(a) - 1))
  ELSE a

RECURSIVE BigFromInt(_)
BigFromInt(n) ==
  IF n = 0 THEN <<>>
  ELSE <<n % LimbBase>> \o BigFromInt(n \div LimbBase)

RECURSIVE BigAddC(_, _, _)
BigAddC(a, b, c) ==
  IF a = <<>> /\ b = <<>> THEN (IF c = 0 THEN <<>> ELSE <<c>>)
  ELSE LET x == IF a = <<>> THEN 0 ELSE Head(a)
           y == IF b = <<>> THEN 0 ELSE Head(b)
           s == x + y + c
       IN  <<s % LimbBase>>
           \o BigAddC(IF a = <<>> THEN <<>> ELSE Tail(a),
                      IF b = <<>> THEN <<>> ELSE Tail(b),
                      s \div LimbBase)

BigAdd(a, b) == BigAddC(a, b, 0)

RECURSIVE BigCmpAt(_, _, _)
BigCmpAt(a, b, i) ==
  IF i = 0 THEN 0
  ELSE IF a[i] < b[i] THEN 0 - 1
  ELSE IF a[i] > b[i] THEN 1
  ELSE BigCmpAt(a, b, i - 1)

\* -1, 0 or 1 as a < b, a = b, a > b.
BigCmp(a, b) ==
  IF Len(a) < Len(b) THEN 0 - 1
  ELSE IF Len(a) > Len(b) THEN 1
  ELSE BigCmpAt(a, b, Len(a))

RECURSIVE BigSubB(_, _, _)
BigSubB(a, b, brw) ==
  IF a = <<>> THEN <<>>
  ELSE LET y == IF b = <<>> THEN 0 ELSE Head(b)
           d == Head(a) - y - brw
       IN  <<IF d < 0 THEN d + LimbBase ELSE d>>
           \o BigSubB(Tail(a),
                      IF b = <<>> THEN <<>> ELSE Tail(b),
                      IF d < 0 THEN 1 ELSE 0)

\* a - b for a >= b.
BigSub(a, b) == BigNorm(BigSubB(a, b, 0))

RECURSIVE BigMulLimb(_, _, _)
BigMulLimb(a, k, c) ==
  IF a = <<>> THEN (IF c = 0 THEN <<>> ELSE <<c>>)
  ELSE LET p == Head(a) * k + c
       IN  <<p % LimbBase>> \o BigMulLimb(Tail(a), k, p \div LimbBase)

RECURSIVE BigMul(_, _)
BigMul(a, b) ==
  IF a = <<>> \/ b = <<>> THEN <<>>
  ELSE BigAdd(BigMulLimb(a, Head(b), 0),
              LET r == BigMul(a, Tail(b))
              IN  IF r = <<>> THEN <<>> ELSE <<0>> \o r)

\* a ^ n by repeated squaring.
RECURSIVE BigPow(_, _)
BigPow(a, n) ==
  IF n = 0 THEN <<1>>
  ELSE LET h == BigPow(a, n \div 2)
           sq == BigMul(h, h)
       IN  IF n % 2 = 0 THEN sq ELSE BigMul(sq, a)

\* The value of a small bignum as an integer (exponents, which stay small).
RECURSIVE BigToInt(_)
BigToInt(a) == IF a = <<>> THEN 0 ELSE Head(a) + LimbBase * BigToInt(Tail(a))

(***************************************************************************)
(* Numbers: a non-negative rational [num, den] (not reduced), or one of    *)
(* the two IEEE values the pipeline can produce from such rationals, kept  *)
(* in the same shape: NaN is 0/0 and Inf is 1/0.  Division follows numpy's *)
(* float64: x/0 is Inf for x > 0 and NaN for x = 0, and nothing is raised. *)
(***************************************************************************)
Q(p, q) == [num |-> BigFromInt(p), den |-> BigFromInt(q)]

NaN == [num |-> <<>>, den |-> <<>>]
Inf == [num |-> <<1>>, den |-> <<>>]

IsRat(x) == x.den # <<>>
IsNaN(x) == x = NaN
IsZero(x) == IsRat(x) /\ x.num = <<>>

\* Numeric equality (NaN equals nothing, itself included).
REq(x, y) ==
  IF IsRat(x) /\ IsRat(y) THEN BigMul(x.num, y.den) = BigMul(y.num, x.den)
  ELSE x = Inf /\ y = Inf

RLess(x, y) ==
  IF IsRat(x) /\ IsRat(y)
    THEN BigCmp(BigMul(x.num, y.den), BigMul(y.num, x.den)) < 0
  ELSE IsRat(x) /\ y = Inf

RAdd(x, y) ==
  IF IsNaN(x) \/ IsNaN(y) THEN NaN
  ELSE IF x = Inf \/ y = Inf THEN Inf
  ELSE [num |-> BigAdd(BigMul(x.num, y.den), BigMul(y.num, x.den)),
        den |-> BigMul(x.den, y.den)]

\* A value below zero has no representation: the pipeline subtracts only in
\* 1 - 1/(1+r)^n, which is >= 0 for r >= 0 and n >= 0.  TLC stops with an
\* error should this ever be evaluated.
BelowZero == CHOOSE z \in {} : TRUE

RSub(x, y) ==
  IF IsNaN(x) \/ IsNaN(y) THEN NaN
  ELSE IF x = Inf THEN (IF y = Inf THEN NaN ELSE Inf)
  ELSE IF y = Inf THEN BelowZero
  ELSE LET a == BigMul(x.num, y.den)
           b == BigMul(y.num, x.den)
       IN  IF BigCmp(a, b) < 0 THEN BelowZero
           ELSE [num |-> BigSub(a, b), den |-> BigMul(x.den, y.den)]

RMul(x, y) ==
  IF IsNaN(x) \/ IsNaN(y) THEN NaN
  ELSE IF x = Inf \/ y = Inf
    THEN (IF IsZero(x) \/ IsZero(y) THEN NaN ELSE Inf)
  ELSE [num |-> BigMul(x.num, y.num), den |-> BigMul(x.den, y.den)]

RDiv(x, y) ==
  IF IsNaN(x) \/ IsNaN(y) THEN NaN
  ELSE IF x = Inf THEN (IF y = Inf THEN NaN ELSE Inf)
  ELSE IF y = Inf THEN Q(0, 1)
  ELSE IF y.num = <<>> THEN (IF x.num = <<>> THEN NaN ELSE Inf)
  ELSE [num |-> BigMul(x.num, y.den), den |-> BigMul(x.den, y.num)]

\* A case the model does not cover (a fractional exponent); TLC stops with
\* an error should it ever be evaluated.
NotModelled == CHOOSE z \in {} : TRUE

\* x ** n as numpy computes it, for a natural exponent n/1: x ** 0 and
\* 1 ** n are 1 whatever the other operand.
RPow(x, n) ==
  IF IsZero(n) THEN Q(1, 1)
  ELSE IF IsRat(x) /\ x.num = x.den THEN Q(1, 1)
  ELSE IF IsNaN(x) \/ IsNaN(n) THEN NaN
  ELSE IF n = Inf THEN (IF RLess(x, Q(1, 1)) THEN Q(0, 1) ELSE Inf)
  ELSE IF x = Inf THEN Inf
  ELSE IF n.den # <<1>> THEN NotModelled
  ELSE LET e == BigToInt(n.num)
       IN  [num |-> BigPow(x.num, e), den |-> BigPow(x.den, e)]

(***************************************************************************)
(* Strings (unit strings) are sequences of characters.                     *)
(***************************************************************************)
\* pat occurs in s at position i.
MatchAt(s, pat, i) ==
  /\ i >= 1
  /\ i + Len(pat) - 1 <= Len(s)
  /\ \A j \in 1..Len(pat) : s[i + j - 1] = pat[j]

\* str.contains(pat) for a pattern without regex metacharacters.
Contains(s, pat) == \E i \in 1..Len(s) : MatchAt(s, pat, i)

RECURSIVE ReplaceFrom(_, _, _, _)
ReplaceFrom(s, pat, repl, i) ==
  IF i > Len(s) THEN <<>>
  ELSE IF MatchAt(s, pat, i)
    THEN repl \o ReplaceFrom(s, pat, repl, i + Len(pat))
  ELSE <<s[i]>> \o ReplaceFrom(s, pat, repl, i + 1)

\* Variant: only the first occurrence is rewritten (str.replace with n=1).
ReplaceFirst(s, pat, repl) ==
  IF ~Contains(s, pat) THEN s
  ELSE LET i == CHOOSE k \in 1..Len(s) :
                  MatchAt(s, pat, k) /\ \A m \in 1..(k - 1) : ~MatchAt(s, pat, m)
       IN  SubSeq(s, 1, i - 1) \o repl \o SubSeq(s, i + Len(pat), Len(s))

\* str.replace(pat, repl): every non-overlapping occurrence, left to right.
Replace(s, pat, repl) == ReplaceFrom(s, pat, repl, 1)

(***************************************************************************)
(* The raw cost table: the long-format DataFrame read at line 139, a       *)
(* sequence of rows (technology, parameter, value, unit).  A unit the CSV  *)
(* leaves empty is read as a missing value, NaUnit.                        *)
(***************************************************************************)
KW == <<"/", "k", "W">>
MW == <<"/", "M", "W">>
NaUnit == <<"nan">>

Row(t, p, v, u) == [tech |-> t, param |-> p, value |-> v, unit |-> u]

\* Unit strings of the technology-data table, one character per word:
\* E = EUR, t = tCO2, % = percent, a = year, p = per unit, h = hour.
EurPerKW == <<"E", "/", "k", "W">>
EurPerMWh == <<"E", "/", "M", "W", "h">>
EurPerKWh == <<"E", "/", "k", "W", "h">>
EurPerGWh == <<"E", "/", "G", "W", "h">>
TonPerMWh == <<"t", "/", "M", "W", "h">>
PctPerYear == <<"%", "/", "a">>
Years == <<"a">>
PerUnit == <<"p">>

\* An excerpt with the shape of the table the notebook downloads: each of the
\* eight parameters occurs for some technology, none for all.
BaseRows ==
  << Row("gas", "fuel", Q(2, 1), EurPerMWh),
     Row("gas", "CO2 intensity", Q(1, 5), TonPerMWh),
     Row("OCGT", "investment", Q(3, 1), EurPerKW),
     Row("OCGT", "FOM", Q(2, 1), PctPerYear),
     Row("OCGT", "VOM", Q(4, 1), EurPerMWh),
     Row("OCGT", "efficiency", Q(21, 50), PerUnit),
     Row("OCGT", "lifetime", Q(2, 1), Years),
     Row("CCGT", "efficiency", Q(1, 2), PerUnit),
     Row("onwind", "investment", Q(1, 1), EurPerKW),
     Row("onwind", "discount rate", Q(1, 20), PerUnit) >>

\* Rows a table may hold besides: values at and outside the edge of each
\* parameter's domain, a second row for a pair the excerpt has, other units,
\* an empty value and an empty unit.
ExtraRows ==
  << Row("OCGT", "fuel", Q(5, 1), EurPerMWh),
     Row("CCGT", "efficiency", Q(0, 1), PerUnit),
     Row("onwind", "efficiency", Q(0, 1), PerUnit),
     Row("OCGT", "discount rate", Q(0, 1), PerUnit),
     Row("CCGT", "lifetime", Q(0, 1), Years),
     Row("onwind", "lifetime", NaN, Years),
     Row("gas", "fuel", Q(1, 500), EurPerKWh),
     Row("onwind", "VOM", Q(1, 1), EurPerGWh),
     Row("onwind", "FOM", Q(1, 1), NaUnit) >>

(***************************************************************************)
(* Lines 148-149: the unit rescale.                                        *)
(***************************************************************************)
\* costs.unit.str.contains("/kW"), row by row.
Mask(rows) == [i \in 1..Len(rows) |-> Contains(rows[i].unit, KW)]

HasNaUnit(rows) == \E i \in 1..Len(rows) : rows[i].unit = NaUnit

\* What masking with a missing unit does depends on the pandas version:
\* .loc raises ValueError on a mask that holds NaN (object dtype), or the
\* missing unit counts as no match (string dtype).
NaMaskOutcomes(rows) == IF HasNaUnit(rows) THEN {"raise", "false"} ELSE {"false"}

\* Variant: the mask is dropped, every value is multiplied.
ScaleValuesUnmasked(rows) ==
  [i \in 1..Len(rows) |-> [rows[i] EXCEPT !.value = RMul(rows[i].value, Q(1000, 1))]]

\* costs.loc[mask, "value"] *= 1e3
ScaleValues(rows) ==
  [i \in 1..Len(rows) |->
     IF Mask(rows)[i]
       THEN [rows[i] EXCEPT !.value = RMul(rows[i].value, Q(1000, 1))]
     ELSE rows[i]]

\* costs.unit = costs.unit.str.replace("/kW", "/MW")
ReplaceUnits(rows) ==
  [i \in 1..Len(rows) |->
     IF rows[i].unit = NaUnit THEN rows[i]
     ELSE [rows[i] EXCEPT !.unit = Replace(rows[i].unit, KW, MW)]]

(***************************************************************************)
(* Lines 151-161: unstack to one row per technology and one column per     *)
(* parameter, then fill the missing values of the columns named in         *)
(* defaults.                                                               *)
(***************************************************************************)
defaults ==
  ("FOM" :> Q(0, 1)) @@ ("VOM" :> Q(0, 1)) @@ ("efficiency" :> Q(1, 1))
  @@ ("fuel" :> Q(0, 1)) @@ ("investment" :> Q(0, 1))
  @@ ("lifetime" :> Q(25, 1)) @@ ("CO2 intensity" :> Q(0, 1))
  @@ ("discount rate" :> Q(7, 100))

Long(rows) == [kind |-> "long", rows |-> rows, index |-> {}, columns |-> {}, at |-> <<>>]
Wide(index, columns, at) ==
  [kind |-> "wide", rows |-> <<>>, index |-> index, columns |-> columns, at |-> at]

\* unstack() raises ValueError when two rows share (technology, parameter).
HasDuplicates(rows) ==
  \E i, j \in 1..Len(rows) :
     i < j /\ rows[i].tech = rows[j].tech /\ rows[i].param = rows[j].param

\* costs.value.unstack(): the value column only; a pair without a row is NaN.
Unstack(rows) ==
  LET index == {rows[i].tech : i \in 1..Len(rows)}
      columns == {rows[i].param : i \in 1..Len(rows)}
      cell(t, p) ==
        IF \E i \in 1..Len(rows) : rows[i].tech = t /\ rows[i].param = p
          THEN rows[CHOOSE i \in 1..Len(rows) :
                      rows[i].tech = t /\ rows[i].param = p].value
        ELSE NaN
  IN  Wide(index, columns, [t \in index |-> [p \in columns |-> cell(t, p)]])

\* Variant: the default is assigned to the whole column, present values too.
FillAll(w, d) ==
  Wide(w.index, w.columns,
       [t \in w.index |-> [p \in w.columns |->
          IF p \in DOMAIN d THEN d[p] ELSE w.at[t][p]]])

\* fillna(defaults): in each column that defaults names, NaN becomes the
\* default; a column the table does not have is not created.
FillNa(w, d) ==
  Wide(w.index, w.columns,
       [t \in w.index |-> [p \in w.columns |->
          IF p \in DOMAIN d /\ IsNaN(w.at[t][p]) THEN d[p] ELSE w.at[t][p]]])

(***************************************************************************)
(* costs.at[t, p]: reading a label the table lacks raises KeyError;        *)
(* writing one enlarges the table, the new cells NaN.                      *)
(***************************************************************************)
AtHas(w, t, p) == t \in w.index /\ p \in w.columns

\* Variant: the value is assigned to the whole column p (costs[p] = v).
AtSetColumn(w, t, p, v) ==
  LET index == w.index \cup {t}
      columns == w.columns \cup {p}
  IN  Wide(index, columns,
           [tt \in index |-> [pp \in columns |->
              IF pp = p THEN v
              ELSE IF AtHas(w, tt, pp) THEN w.at[tt][pp]
              ELSE NaN]])

AtSet(w, t, p, v) ==
  LET index == w.index \cup {t}
      columns == w.columns \cup {p}
  IN  Wide(index, columns,
           [tt \in index |-> [pp \in columns |->
              IF tt = t /\ pp = p THEN v
              ELSE IF AtHas(w, tt, pp) THEN w.at[tt][pp]
              ELSE NaN]])

\* costs[p] = series: the column is added or replaced.
SetColumn(w, p, series) ==
  LET columns == w.columns \cup {p}
  IN  Wide(w.index, columns,
           [t \in w.index |-> [pp \in columns |->
              IF pp = p THEN series[t] ELSE w.at[t][pp]]])

(***************************************************************************)
(* Lines 187-188: annuity(r, n) = r / (1.0 - 1.0 / (1.0 + r) ** n).        *)
(***************************************************************************)
\* Variant: the exponent is left out, r / (1.0 - 1.0 / (1.0 + r)).
AnnuityNoExponent(r, n) ==
  RDiv(r, RSub(Q(1, 1), RDiv(Q(1, 1), RAdd(Q(1, 1), r))))

\* Variant: the sign in the denominator is wrong, r / (1.0 + 1.0 / (1.0 + r) ** n).
AnnuityPlus(r, n) ==
  RDiv(r, RAdd(Q(1, 1), RDiv(Q(1, 1), RPow(RAdd(Q(1, 1), r), n))))

Annuity(r, n) ==
  RDiv(r, RSub(Q(1, 1), RDiv(Q(1, 1), RPow(RAdd(Q(1, 1), r), n))))

\* Variant: the fuel cost is multiplied by the efficiency.
MarginalCostTimes(w) ==
  [t \in w.index |->
     RAdd(w.at[t]["VOM"], RMul(w.at[t]["fuel"], w.at[t]["efficiency"]))]

\* Line 213.
MarginalCost(w) ==
  [t \in w.index |->
     RAdd(w.at[t]["VOM"], RDiv(w.at[t]["fuel"], w.at[t]["efficiency"]))]

\* Variant: every call reads the discount rate of the gas row.
AnnuitySeriesOfGas(w) ==
  [t \in w.index |-> Annuity(w.at["gas"]["discount rate"], w.at[t]["lifetime"])]

\* Line 229: one call per row of costs.
AnnuitySeries(w) ==
  [t \in w.index |-> Annuity(w.at[t]["discount rate"], w.at[t]["lifetime"])]

\* Line 238.
CapitalCost(w, ann) ==
  [t \in w.index |->
     RMul(RAdd(ann[t], RDiv(w.at[t]["FOM"], Q(100, 1))), w.at[t]["investment"])]

(***************************************************************************)
(* Time series (lines 264, 290): a frame with an index of timestamps, in   *)
(* hours since midnight of the first day (the first row of the file), and  *)
(* the three columns of the file, each a sequence aligned with the index.  *)
(* The values of the file are numbers (no empty cells).                    *)
(***************************************************************************)
Frame(index, load, wind, pv) ==
  [index |-> index, load_mw |-> load, wind_pu |-> wind, pv_pu |-> pv]

NoFrame == Frame(<<>>, <<>>, <<>>, <<>>)

\* The positions of s whose timestamp opens a bin of res hours that no
\* earlier row of s is in.
RECURSIVE BinStarts(_, _, _)
BinStarts(index, res, i) ==
  IF i > Len(index) THEN <<>>
  ELSE (IF i = 1 \/ index[i] \div res # index[i - 1] \div res THEN <<i>> ELSE <<>>)
       \o BinStarts(index, res, i + 1)

\* Variant: every row opens a bin (nothing is dropped).
ResampleKeepsAll(f, res) == f

\* ts.resample(f"{resolution}h").first(): one row per bin of res hours,
\* stamped with the start of the bin and holding the first value in it.
Resample(f, res) ==
  LET at == BinStarts(f.index, res, 1)
      take(col) == [k \in 1..Len(at) |-> col[at[k]]]
  IN  Frame([k \in 1..Len(at) |-> (f.index[at[k]] \div res) * res],
            take(f.load_mw), take(f.wind_pu), take(f.pv_pu))

(***************************************************************************)
(* The network (pypsa.Network, line 321 onwards): its snapshots and their  *)
(* weightings, the static tables of its components and the time-varying    *)
(* ones (p_set, p_max_pu, the dispatch p), name by name.                   *)
(***************************************************************************)
\* The timestamp of the single snapshot "now" of a new network.
Now == 0 - 1

\* A network holds no line, storage unit or global constraint until one is
\* added.
Network(snapshots, weightings, buses, carrs, demand, gens, pset, pmaxpu, p) ==
  [p |-> p, snapshots |-> snapshots, buses |-> buses,
   snapshot_weightings |-> weightings, carriers |-> carrs, loads |-> demand,
   generators |-> gens, p_set |-> pset, p_max_pu |-> pmaxpu,
   load_bus |-> <<>>, lines |-> <<>>, storage_units |-> <<>>,
   global_constraints |-> <<>>]

NoNetwork == Network(<<>>, <<>>, {}, <<>>, {}, <<>>, <<>>, <<>>, <<>>)

\* pypsa.Network()
NewNetwork == Network(<<Now>>, <<Q(1, 1)>>, {}, <<>>, {}, <<>>, <<>>, <<>>, <<>>)

\* n.set_snapshots(index): the snapshots are replaced and every weighting
\* is the default 1.
SetSnapshots(net, index) ==
  [net EXCEPT !.snapshots = index,
              !.snapshot_weightings = [i \in 1..Len(index) |-> Q(1, 1)]]

\* Variant: the weightings are left at the default.
SetWeightingsNot(net, w) == net

\* n.snapshot_weightings.loc[:, :] = w
SetWeightings(net, w) ==
  [net EXCEPT !.snapshot_weightings = [i \in 1..Len(net.snapshots) |-> Q(w, 1)]]

\* Lines 410-416.
carriers ==
  <<"onwind", "solar", "OCGT", "hydrogen storage underground", "battery storage">>

\* A series given for a time-varying attribute, on the snapshots of the
\* network: the value at each snapshot's timestamp, NaN where the series
\* has none.
Reindex(index, values, snapshots) ==
  [i \in 1..Len(snapshots) |->
     IF \E k \in 1..Len(index) : index[k] = snapshots[i]
       THEN values[CHOOSE k \in 1..Len(index) : index[k] = snapshots[i]]
     ELSE NaN]

\* What n.add does with a series whose index is not the snapshots depends on
\* the pypsa release installed (line 21 pins none): it raises, or it stores
\* the series reindexed to the snapshots.
SeriesOutcomes(index, snapshots) ==
  IF index = snapshots THEN {"store"} ELSE {"raise", "store"}

\* A generator as n.add stores it; attributes not given take pypsa's
\* defaults (p_nom 0, p_nom_extendable False, p_min_pu 0, marginal_cost 0,
\* capital_cost 0, efficiency 1, p_max_pu 1, p_nom_opt 0 until solved).
GeneratorAt(bus, carrier, p_nom, extendable, capital, marginal, eff) ==
  [bus |-> bus, carrier |-> carrier, p_nom |-> p_nom,
   p_nom_extendable |-> extendable, p_min_pu |-> Q(0, 1),
   capital_cost |-> capital, marginal_cost |-> marginal,
   efficiency |-> eff, p_nom_opt |-> Q(0, 1)]

\* The generators of lines 476-528: bus="electricity", p_nom_extendable=True.
Generator(carrier, capital, marginal, eff) ==
  GeneratorAt("electricity", carrier, Q(0, 1), TRUE, capital, marginal, eff)

\* A storage unit as n.add stores it (lines 780-792, 814-825).
StorageUnit(carrier, max_hours, capital, store, dispatch) ==
  [bus |-> "electricity", carrier |-> carrier, p_nom_extendable |-> TRUE,
   capital_cost |-> capital, p_nom_opt |-> Q(0, 1), max_hours |-> max_hours,
   efficiency_store |-> store, efficiency_dispatch |-> dispatch,
   cyclic_state_of_charge |-> TRUE]

AddStorageUnit(net, name, u) ==
  [net EXCEPT !.storage_units = (name :> u) @@ net.storage_units]

AddGenerator(net, name, g) ==
  [net EXCEPT !.generators = (name :> g) @@ net.generators]

\* p_max_pu of generator g at snapshot i: its series, or the static 1.
PMaxPu(net, g, i) ==
  IF g \in DOMAIN net.p_max_pu THEN net.p_max_pu[g][i] ELSE Q(1, 1)

\* Lines 654-658: per generator and snapshot, dispatch / efficiency * the
\* co2_emissions of the generator's carrier; map() gives NaN for a carrier
\* that n.carriers does not hold.
Emissions(net) ==
  [g \in DOMAIN net.generators |->
     [i \in 1..Len(net.snapshots) |->
        RMul(RDiv(net.p[g][i], net.generators[g].efficiency),
             IF net.generators[g].carrier \in DOMAIN net.carriers
               THEN net.carriers[net.generators[g].carrier]
             ELSE NaN)]]

\* sum(axis=1) at snapshot i: the sum over the generators, NaN skipped.
RECURSIVE RowSum(_, _, _)
RowSum(em, gens, i) ==
  IF gens = {} THEN Q(0, 1)
  ELSE LET g == CHOOSE x \in gens : TRUE
           rest == RowSum(em, gens \ {g}, i)
       IN  IF IsNaN(em[g][i]) THEN rest ELSE RAdd(em[g][i], rest)

\* weights @ series: the dot product.
RECURSIVE Dot(_, _, _)
Dot(w, x, i) ==
  IF i > Len(w) THEN Q(0, 1)
  ELSE RAdd(RMul(w[i], x[i]), Dot(w, x, i + 1))

\* The left-hand side of a global constraint on co2_emissions: the weighted
\* sum over snapshots and generators of dispatch / efficiency * intensity,
\* over the generators whose carrier n.carriers holds.
WeightedEmissions(net) ==
  Dot(net.snapshot_weightings,
      [i \in 1..Len(net.snapshots) |->
         RowSum(Emissions(net), DOMAIN net.generators, i)], 1)

\* A dispatch meets every global constraint (sense "<=") of the network.
Feasible(net) ==
  \A c \in DOMAIN net.global_constraints :
     ~RLess(net.global_constraints[c].constant, WeightedEmissions(net))

\* Variant of line 974: the power capacity alone.
EnergyCapacityOfPower(net) ==
  [u \in DOMAIN net.storage_units |->
     RDiv(net.storage_units[u].p_nom_opt, Q(1000, 1))]

\* Line 974: n.storage_units.p_nom_opt.div(1e3) * n.storage_units.max_hours
EnergyCapacity(net) ==
  [u \in DOMAIN net.storage_units |->
     RMul(RDiv(net.storage_units[u].p_nom_opt, Q(1000, 1)),
          net.storage_units[u].max_hours)]

\* Variant: the snapshot weightings are left out of the total.
TotalUnweighted(w, em) ==
  Dot([i \in 1..Len(w) |-> Q(1, 1)],
      [i \in 1..Len(w) |-> RDiv(RowSum(em, DOMAIN em, i), Q(1000000, 1))], 1)

\* Line 667: n.snapshot_weightings.generators @ emissions.sum(axis=1).div(1e6)
Total(w, em) ==
  Dot(w, [i \in 1..Len(w) |-> RDiv(RowSum(em, DOMAIN em, i), Q(1000000, 1))], 1)

(***************************************************************************)
(* 01-pypsa-dispatch.ipynb: the data of lines 100-197 and the least-cost   *)
(* dispatch that n.optimize() returns for its network of two buses joined  *)
(* by one line, generators of fixed capacity and one snapshot.             *)
(***************************************************************************)
\* Lines 100-106 and 124-130 (0.33 is 33/100, and so on).
fuel_cost ==
  [coal |-> Q(8, 1), gas |-> Q(100, 1), oil |-> Q(48, 1), hydro |-> Q(1, 1),
   wind |-> Q(0, 1)]

efficiency ==
  [coal |-> Q(33, 100), gas |-> Q(58, 100), oil |-> Q(35, 100),
   hydro |-> Q(1, 1), wind |-> Q(1, 1)]

\* Lines 149-155: the dict bound to the name emissions.
emissions_dict ==
  [coal |-> Q(34, 100), gas |-> Q(2, 10), oil |-> Q(26, 100), hydro |-> Q(0, 1),
   wind |-> Q(0, 1)]

\* Lines 173-176, each dict in the order of its items.
power_plants ==
  [A |-> << [tech |-> "coal", p_nom |-> Q(35000, 1)],
            [tech |-> "wind", p_nom |-> Q(3000, 1)],
            [tech |-> "gas", p_nom |-> Q(8000, 1)],
            [tech |-> "oil", p_nom |-> Q(2000, 1)] >>,
   B |-> << [tech |-> "hydro", p_nom |-> Q(1200, 1)] >>]

\* d.get(key, default)
Get(d, key, default) == IF key \in DOMAIN d THEN d[key] ELSE default

\* f"A {tech}"
AName ==
  [coal |-> "A coal", wind |-> "A wind", gas |-> "A gas", oil |-> "A oil"]

RMin(x, y) == IF RLess(y, x) THEN y ELSE x

\* The generators of the network at bus b, and the loads.
GeneratorsAt(net, b) == {g \in DOMAIN net.generators : net.generators[g].bus = b}
LoadsAt(net, b) == {l \in net.loads : net.load_bus[l] = b}

RECURSIVE Sum(_, _)
Sum(f, S) ==
  IF S = {} THEN Q(0, 1)
  ELSE LET x == CHOOSE y \in S : TRUE
       IN  RAdd(f[x], Sum(f, S \ {x}))

\* The load at bus b (one snapshot) and the capacity installed there.
LoadAt(net, b) == Sum([l \in LoadsAt(net, b) |-> net.p_set[l][1]], LoadsAt(net, b))
CapacityAt(net, b) ==
  Sum([g \in GeneratorsAt(net, b) |-> net.generators[g].p_nom], GeneratorsAt(net, b))

\* Variant: the generators are loaded from the most expensive down.
RECURSIVE MostExpensiveFirst(_, _, _)
MostExpensiveFirst(net, gens, demand) ==
  IF gens = {} THEN <<>>
  ELSE LET g == CHOOSE x \in gens :
                  \A y \in gens : ~RLess(net.generators[x].marginal_cost,
                                          net.generators[y].marginal_cost)
           take == RMin(demand, net.generators[g].p_nom)
       IN  (g :> take) @@ MostExpensiveFirst(net, gens \ {g}, RSub(demand, take))

\* The cheapest way to generate demand from the generators gens (each
\* between 0 and its p_nom): in the order of marginal cost.
RECURSIVE MeritOrder(_, _, _)
MeritOrder(net, gens, demand) ==
  IF gens = {} THEN <<>>
  ELSE LET g == CHOOSE x \in gens :
                  \A y \in gens : ~RLess(net.generators[y].marginal_cost,
                                          net.generators[x].marginal_cost)
           take == RMin(demand, net.generators[g].p_nom)
       IN  (g :> take) @@ MeritOrder(net, gens \ {g}, RSub(demand, take))

\* The cost of a dispatch: the sum of output x marginal cost.
Cost(net, p) ==
  Sum([g \in DOMAIN p |-> RMul(p[g], net.generators[g].marginal_cost)], DOMAIN p)

MaxFlowSteps == 10

\* The flows a line may carry from one end to the other: the multiples of
\* 50 MW up to its rating s_nom (every number of lines 173-197 and 461-770
\* is a multiple, so the vertices of the problem are among them).
Flows(s_nom) ==
  {f \in {Q(50 * k, 1) : k \in 0..MaxFlowSteps} : ~RLess(s_nom, f)}

\* The dispatches that balance both buses when the line carries f from bus
\* from to bus to: each bus generates its load plus what it sends or minus
\* what it gets, within the capacity installed there.
Balanced(net, line, from, to, f) ==
  IF \/ RLess(LoadAt(net, to), f)
     \/ RLess(CapacityAt(net, from), RAdd(LoadAt(net, from), f))
     \/ RLess(CapacityAt(net, to), RSub(LoadAt(net, to), f))
    THEN {}
  ELSE {[p |-> MeritOrder(net, GeneratorsAt(net, from), RAdd(LoadAt(net, from), f))
                 @@ MeritOrder(net, GeneratorsAt(net, to), RSub(LoadAt(net, to), f)),
         s_nom |-> line.s_nom, status |-> "ok"]}

\* The balanced dispatches over the flows of the line, either way.
Dispatches(net, line) ==
  UNION {Balanced(net, line, line.bus0, line.bus1, f)
           \cup Balanced(net, line, line.bus1, line.bus0, f) : f \in Flows(line.s_nom)}

\* n.optimize(): the dispatches of least cost; none if the loads cannot be
\* met (the solver reports the problem infeasible).
LeastCost(net) ==
  LET line == net.lines["A-B"]
      all == Dispatches(net, line)
  IN  IF all = {} THEN {[s_nom |-> line.s_nom, status |-> "infeasible"]}
      ELSE {d \in all : \A e \in all : ~RLess(Cost(net, e.p), Cost(net, d.p))}

(***************************************************************************)
(* The kernel session.                                                     *)
(*   costs    the value bound to the name costs (long, then wide table)    *)
(*   annuity  the value bound to the name annuity (function, then Series)  *)
(*   out      the value displayed by line 197                              *)
(*   pc       the line of the next statement of the top-to-bottom run      *)
(*   err      the exception that stopped the run, or "none"                *)
(*   edits    how often the gas row has been edited after the copy         *)
(*   costs_id the identity of the table object bound to the name costs     *)
(*   ts, resolution, n, emissions                                          *)
(*            the values bound to these names (line 264 onwards)           *)
(*   shown    the value displayed last (lines 667 and 974)                 *)
(* The session of 01-pypsa-dispatch.ipynb binds n as well, and             *)
(*   loads    the value bound to the name loads (line 194)                 *)
(* History, read by the properties only:                                   *)
(*   raw      the table as read at line 139                                *)
(*   filled   the table as line 161 left it                                *)
(*   hourly   the time series file behind the url of line 261              *)
(*   runs     the result of each n.optimize() of 01-pypsa-dispatch.ipynb   *)
(***************************************************************************)
VARIABLES costs, annuity, out, pc, err, edits, raw, filled,
          costs_id, ts, resolution, n, emissions, shown, hourly,
          loads, runs

\* The names bound from line 264 onwards.
netvars == <<ts, resolution, n, emissions, shown, hourly>>

\* The names of the session of 01-pypsa-dispatch.ipynb.
dispatchvars == <<loads, runs>>

vars == <<costs, annuity, out, pc, err, edits, raw, filled, costs_id, netvars,
          dispatchvars>>

MaxRemoved == 2
MaxAdded == 1
MaxUnitLen == 6
MaxEdits == 1
MaxTenths == 4
MaxLifetime == 3
MaxSnapshots == 3
MaxLoadSteps == 4

RECURSIVE Pick(_, _, _)
\* The rows of s whose position is in keep, in order, from position i on.
Pick(s, keep, i) ==
  IF i > Len(s) THEN <<>>
  ELSE (IF i \in keep THEN <<s[i]>> ELSE <<>>) \o Pick(s, keep, i + 1)

Upto(S, k) == {x \in SUBSET S : Cardinality(x) <= k}

\* Tables read at line 139: the excerpt less up to MaxRemoved of its rows,
\* plus up to MaxAdded further rows.
Tables ==
  { Pick(BaseRows, (1..Len(BaseRows)) \ rem, 1) \o Pick(ExtraRows, add, 1) :
      rem \in Upto(1..Len(BaseRows), MaxRemoved),
      add \in Upto(1..Len(ExtraRows), MaxAdded) }

\* The characters of the pattern "/kW"; the excerpt's own units hold others.
UnitChars == {"/", "k", "W"}

RECURSIVE Strings(_)
Strings(len) ==
  IF len = 0 THEN {<<>>}
  ELSE LET shorter == Strings(len - 1)
       IN  shorter \cup {<<c>> \o s : c \in UnitChars, s \in {x \in shorter : Len(x) = len - 1}}

\* Tables for the unit rescale: the excerpt plus one row whose unit is any
\* string of up to MaxUnitLen characters.
UnitTables ==
  { BaseRows \o <<Row("onwind", "VOM", Q(1, 1), u)>> :
      u \in Strings(MaxUnitLen) \cup {NaUnit} }

\* Discount rates in (0, 1) and lifetimes >= 1, the default rate 0.07 and
\* the lifetime 20 of line 197 among them.
Rates == {Q(k, 10) : k \in 1..MaxTenths} \cup {Q(7, 100), Q(99, 100)}
Lifetimes == {Q(k, 1) : k \in 1..MaxLifetime} \cup {Q(20, 1)}

\* Tables for the annuity: the first six rows of the excerpt (gas, and OCGT
\* without its lifetime) and a discount rate and a lifetime for each of two
\* technologies.
RateTables ==
  { SubSeq(BaseRows, 1, 6) \o
      << Row("OCGT", "discount rate", r1, PerUnit), Row("OCGT", "lifetime", n1, Years),
         Row("onwind", "discount rate", r2, PerUnit), Row("onwind", "lifetime", n2, Years) >> :
      r1 \in Rates, n1 \in Lifetimes, r2 \in Rates, n2 \in Lifetimes }

\* The table of the run that builds the network: the excerpt and a row for
\* each further technology that lines 418-528 and 780-825 look up.
NetRows ==
  BaseRows \o
    << Row("solar", "investment", Q(1, 2), EurPerKW),
       Row("hydrogen storage underground", "investment", Q(2, 1), EurPerKWh),
       Row("battery storage", "investment", Q(1, 5), EurPerKWh),
       Row("battery inverter", "investment", Q(1, 4), EurPerKW),
       Row("battery inverter", "efficiency", Q(24, 25), PerUnit),
       Row("electrolysis", "investment", Q(1, 1), EurPerKW),
       Row("electrolysis", "efficiency", Q(3, 5), PerUnit),
       Row("fuel cell", "investment", Q(3, 2), EurPerKW),
       Row("fuel cell", "efficiency", Q(1, 2), PerUnit),
       Row("battery storage", "lifetime", Q(2, 1), Years),
       Row("battery inverter", "lifetime", Q(1, 1), Years),
       Row("hydrogen storage underground", "lifetime", Q(2, 1), Years),
       Row("electrolysis", "lifetime", Q(1, 1), Years),
       Row("fuel cell", "lifetime", Q(1, 1), Years) >>

\* Capacity factors of the wind column.
CapacityFactors == {Q(1, 10), Q(1, 2), Q(9, 10)}

\* The hours of the file: three for each of up to MaxSnapshots snapshots.
Hours == 3 * MaxSnapshots

\* Time series read at line 264, hourly: wind_pu takes any capacity factor
\* at the hours 0, 3, 6, ... and 1 at the others; pv_pu and load_mw are one
\* fixed day.
TimeSeries ==
  { Frame([h \in 1..Hours |-> h - 1],
          [h \in 1..Hours |-> IF (h - 1) % 3 = 0 THEN Q(500, 1) ELSE Q(600, 1)],
          [h \in 1..Hours |-> IF (h - 1) % 3 = 0 THEN w[(h - 1) \div 3 + 1] ELSE Q(1, 1)],
          [h \in 1..Hours |-> IF (h - 1) % 3 = 0 THEN Q(1, 4) ELSE Q(3, 4)]) :
      w \in [1..MaxSnapshots -> CapacityFactors] }

\* Capacities and dispatch levels (shares of the upper bound) a solve may
\* return.
Capacities == {Q(0, 1), Q(1000, 1)}
Levels == {Q(0, 1), Q(1, 1)}

\* Power capacities of a storage unit a solve may return.
StorageCapacities == {Q(0, 1), Q(100, 1)}

StartWith(rows, file) ==
  /\ raw = rows
  /\ costs = Long(rows)
  /\ annuity = [kind |-> "unbound", s |-> <<>>]
  /\ out = NaN
  /\ pc = "L148"
  /\ err = "none"
  /\ edits = 0
  /\ filled = Long(<<>>)
  /\ costs_id = 1
  /\ ts = NoFrame
  /\ resolution = 0
  /\ n = NoNetwork
  /\ emissions = <<>>
  /\ shown = NaN
  /\ hourly = file
  /\ loads = <<>>
  /\ runs = <<>>

\* The sessions that read no time series.
Start(rows) == StartWith(rows, NoFrame)

\* The loads of lines 194-197: 42000 MW at A and 650 MW at B, and loads
\* around them.
LoadsA == {Q(41000 + 500 * k, 1) : k \in 0..MaxLoadSteps}
LoadsB == {Q(600, 1), Q(650, 1), Q(700, 1)}

\* The session of 01-pypsa-dispatch.ipynb once the cells of lines 100-197
\* have run: no name of the other notebook is bound.
InitDispatch ==
  /\ raw = <<>>
  /\ costs = Long(<<>>)
  /\ annuity = [kind |-> "unbound", s |-> <<>>]
  /\ out = NaN
  /\ pc = "D240"
  /\ err = "none"
  /\ edits = 0
  /\ filled = Long(<<>>)
  /\ costs_id = 1
  /\ ts = NoFrame
  /\ resolution = 0
  /\ n = NoNetwork
  /\ emissions = <<>>
  /\ shown = NaN
  /\ hourly = NoFrame
  /\ loads \in {[A |-> a, B |-> b] : a \in LoadsA, b \in LoadsB}
  /\ runs = <<>>

Init == \E rows \in Tables : Start(rows)

InitUnits == \E rows \in UnitTables : Start(rows)

InitRates == \E rows \in RateTables : Start(rows)

InitNet == \E f \in TimeSeries : StartWith(NetRows, f)

\* One file: the capacity factor 1/2 at the hours 0, 3, 6, ...
StorageSeries == {f \in TimeSeries : \A h \in 1..Hours : f.wind_pu[h] # Q(1, 10) /\ f.wind_pu[h] # Q(9, 10)}

InitStorage == \E f \in StorageSeries : StartWith(NetRows, f)

Running(line) == pc = line /\ err = "none"

Raise(e) ==
  /\ err' = e
  /\ UNCHANGED <<costs, annuity, out, pc, edits, raw, filled, costs_id, netvars, dispatchvars>>

\* costs.loc[costs.unit.str.contains("/kW"), "value"] *= 1e3
L148 ==
  /\ Running("L148")
  /\ \E na \in NaMaskOutcomes(costs.rows) :
       IF na = "raise" THEN Raise("ValueError")
       ELSE /\ costs' = Long(ScaleValues(costs.rows))
            /\ pc' = "L149"
            /\ UNCHANGED <<annuity, out, err, edits, raw, filled, costs_id, netvars, dispatchvars>>

\* costs.unit = costs.unit.str.replace("/kW", "/MW")
L149 ==
  /\ Running("L149")
  /\ costs' = Long(ReplaceUnits(costs.rows))
  /\ pc' = "L161"
  /\ UNCHANGED <<annuity, out, err, edits, raw, filled, costs_id, netvars, dispatchvars>>

\* costs = costs.value.unstack().fillna(defaults)
L161 ==
  /\ Running("L161")
  /\ IF HasDuplicates(costs.rows) THEN Raise("ValueError")
     ELSE /\ costs' = FillNa(Unstack(costs.rows), defaults)
          /\ costs_id' = costs_id + 1
          /\ filled' = costs'
          /\ pc' = "L163"
          /\ UNCHANGED <<annuity, out, err, edits, raw, netvars, dispatchvars>>

\* costs.at[t, p] = costs.at["gas", p]
Copy(line, t, p, next) ==
  /\ Running(line)
  /\ IF ~AtHas(costs, "gas", p) THEN Raise("KeyError")
     ELSE /\ costs' = AtSet(costs, t, p, costs.at["gas"][p])
          /\ pc' = next
          /\ UNCHANGED <<annuity, out, err, edits, raw, filled, costs_id, netvars, dispatchvars>>

\* Variant of line 163: the marginal cost is computed with no fuel cost
\* copied to OCGT.
L163Skipped ==
  /\ Running("L163")
  /\ pc' = "L164"
  /\ UNCHANGED <<costs, annuity, out, err, edits, raw, filled, costs_id, netvars, dispatchvars>>

L163 == Copy("L163", "OCGT", "fuel", "L164")
\* Variant of line 164: the target of line 163 is repeated.
L164Repeated == Copy("L164", "OCGT", "fuel", "L165")
L164 == Copy("L164", "CCGT", "fuel", "L165")
\* Variant of line 165: the fuel cost is copied once more instead.
L165OfFuel == Copy("L165", "OCGT", "fuel", "L166")
L165 == Copy("L165", "OCGT", "CO2 intensity", "L166")
L166 == Copy("L166", "CCGT", "CO2 intensity", "L187")

\* def annuity(r, n)
L187 ==
  /\ Running("L187")
  /\ annuity' = [kind |-> "function", s |-> <<>>]
  /\ pc' = "L197"
  /\ UNCHANGED <<costs, out, err, edits, raw, filled, costs_id, netvars, dispatchvars>>

\* annuity(0.07, 20)
Out197 == Annuity(Q(7, 100), Q(20, 1))

L197 ==
  /\ Running("L197")
  /\ out' = Out197
  /\ pc' = "L213"
  /\ UNCHANGED <<costs, annuity, err, edits, raw, filled, costs_id, netvars, dispatchvars>>

\* costs["marginal_cost"] = costs["VOM"] + costs["fuel"] / costs["efficiency"]
L213 ==
  /\ Running("L213")
  /\ IF ~({"VOM", "fuel", "efficiency"} \subseteq costs.columns) THEN Raise("KeyError")
     ELSE /\ costs' = SetColumn(costs, "marginal_cost", MarginalCost(costs))
          /\ pc' = "L229"
          /\ UNCHANGED <<annuity, out, err, edits, raw, filled, costs_id, netvars, dispatchvars>>

\* annuity = costs.apply(lambda x: annuity(x["discount rate"], x["lifetime"]), axis=1)
L229 ==
  /\ Running("L229")
  /\ IF ~({"discount rate", "lifetime"} \subseteq costs.columns) THEN Raise("KeyError")
     ELSE IF annuity.kind # "function" THEN Raise("TypeError")
     ELSE /\ annuity' = [kind |-> "series", s |-> AnnuitySeries(costs)]
          /\ pc' = "L238"
          /\ UNCHANGED <<costs, out, err, edits, raw, filled, costs_id, netvars, dispatchvars>>

\* costs["capital_cost"] = (annuity + costs["FOM"] / 100) * costs["investment"]
L238 ==
  /\ Running("L238")
  /\ IF ~({"FOM", "investment"} \subseteq costs.columns) THEN Raise("KeyError")
     ELSE IF annuity.kind # "series" THEN Raise("TypeError")
     ELSE /\ costs' = SetColumn(costs, "capital_cost", CapitalCost(costs, annuity.s))
          /\ pc' = "L264"
          /\ UNCHANGED <<annuity, out, err, edits, raw, filled, costs_id, netvars, dispatchvars>>

\* The names the cells up to line 238 bind.
cellvars == <<costs, annuity, out, edits, raw, filled, costs_id>>

\* ts = pd.read_csv(url, index_col=0, parse_dates=True)
L264 ==
  /\ Running("L264")
  /\ ts' = hourly
  /\ pc' = "L289"
  /\ UNCHANGED <<cellvars, dispatchvars, err, resolution, n, emissions, shown, hourly>>

\* resolution = 3
L289 ==
  /\ Running("L289")
  /\ resolution' = 3
  /\ pc' = "L290"
  /\ UNCHANGED <<cellvars, dispatchvars, err, ts, n, emissions, shown, hourly>>

\* ts = ts.resample(f"{resolution}h").first()
L290 ==
  /\ Running("L290")
  /\ ts' = Resample(ts, resolution)
  /\ pc' = "L321"
  /\ UNCHANGED <<cellvars, dispatchvars, err, resolution, n, emissions, shown, hourly>>

\* A statement that changes the network only.
NetStep(line, net, next) ==
  /\ Running(line)
  /\ n' = net
  /\ pc' = next
  /\ UNCHANGED <<cellvars, dispatchvars, err, ts, resolution, emissions, shown, hourly>>

\* n = pypsa.Network()
L321 == NetStep("L321", NewNetwork, "L337")

\* n.add("Bus", "electricity", carrier="electricity")
L337 == NetStep("L337", [n EXCEPT !.buses = @ \cup {"electricity"}], "L353")

\* n.set_snapshots(ts.index)
L353 == NetStep("L353", SetSnapshots(n, ts.index), "L378")

\* n.snapshot_weightings.loc[:, :] = resolution
L378 == NetStep("L378", SetWeightings(n, resolution), "L418")

\* n.add("Carrier", carriers, ..., co2_emissions=[costs.at[c, "CO2 intensity"] ...])
L418 ==
  /\ Running("L418")
  /\ LET names == {carriers[k] : k \in 1..Len(carriers)}
     IN  IF \E c \in names : ~AtHas(costs, c, "CO2 intensity")
           THEN Raise("KeyError")
         ELSE NetStep("L418",
                      [n EXCEPT !.carriers = [c \in names |-> costs.at[c]["CO2 intensity"]]],
                      "L439")

\* n.add("Load", "demand", bus="electricity", p_set=ts.load_mw)
L439 ==
  /\ Running("L439")
  /\ \E o \in SeriesOutcomes(ts.index, n.snapshots) :
       IF o = "raise" THEN Raise("ValueError")
       ELSE NetStep("L439",
                    [n EXCEPT !.loads = @ \cup {"demand"},
                              !.load_bus = ("demand" :> "electricity") @@ @,
                              !.p_set = ("demand" :> Reindex(ts.index, ts.load_mw, n.snapshots)) @@ @],
                    "L476")

\* n.add("Generator", "OCGT", ..., carrier="OCGT", capital_cost=costs.at[...], ...)
L476 ==
  /\ Running("L476")
  /\ IF ~({"capital_cost", "marginal_cost", "efficiency"} \subseteq costs.columns
          /\ "OCGT" \in costs.index)
       THEN Raise("KeyError")
     ELSE NetStep("L476",
                  AddGenerator(n, "OCGT",
                               Generator("OCGT", costs.at["OCGT"]["capital_cost"],
                                         costs.at["OCGT"]["marginal_cost"],
                                         costs.at["OCGT"]["efficiency"])),
                  "L501")

\* n.add("Generator", name, ..., carrier=carrier, p_max_pu=profile,
\*       capital_cost=costs.at[tech, ...], marginal_cost=costs.at[tech, ...])
AddVariable(line, name, carrier, profile, tech, next) ==
  /\ Running(line)
  /\ IF ~({"capital_cost", "marginal_cost"} \subseteq costs.columns /\ tech \in costs.index)
       THEN Raise("KeyError")
     ELSE \E o \in SeriesOutcomes(ts.index, n.snapshots) :
            IF o = "raise" THEN Raise("ValueError")
            ELSE NetStep(line,
                         [AddGenerator(n, name,
                                       Generator(carrier, costs.at[tech]["capital_cost"],
                                                 costs.at[tech]["marginal_cost"], Q(1, 1)))
                            EXCEPT !.p_max_pu = (name :> Reindex(ts.index, profile, n.snapshots)) @@ @],
                         next)

\* Variant of line 506: the profile of the other generator is given.
L501OtherProfile == AddVariable("L501", "wind", "wind", ts.pv_pu, "onwind", "L519")

L501 == AddVariable("L501", "wind", "wind", ts.wind_pu, "onwind", "L519")

L519 == AddVariable("L519", "solar", "solar", ts.pv_pu, "solar", "L567")

\* n.optimize(solver_name="highs"): the solver's choice of capacities and
\* dispatch is any within the generators' bounds 0 <= p <= p_max_pu * p_nom.
L567 ==
  /\ Running("L567")
  /\ \E cap \in [DOMAIN n.generators -> Capacities],
        lev \in [DOMAIN n.generators -> Levels] :
       n' = [n EXCEPT
               !.generators = [g \in DOMAIN @ |-> [@[g] EXCEPT !.p_nom_opt = cap[g]]],
               !.p = [g \in DOMAIN n.generators |->
                        [i \in 1..Len(n.snapshots) |->
                           RMul(lev[g], RMul(PMaxPu(n, g, i), cap[g]))]]]
  /\ pc' = "L654"
  /\ UNCHANGED <<cellvars, dispatchvars, err, ts, resolution, emissions, shown, hourly>>

\* emissions = n.generators_t.p / n.generators.efficiency * ...
L654 ==
  /\ Running("L654")
  /\ emissions' = Emissions(n)
  /\ pc' = "L667"
  /\ UNCHANGED <<cellvars, dispatchvars, err, ts, resolution, n, shown, hourly>>

\* n.snapshot_weightings.generators @ emissions.sum(axis=1).div(1e6)
L667 ==
  /\ Running("L667")
  /\ shown' = Total(n.snapshot_weightings, emissions)
  /\ pc' = "L690"
  /\ UNCHANGED <<cellvars, dispatchvars, err, ts, resolution, n, emissions, hourly>>

\* Lines 690-748: plot_dispatch is defined and called; it draws and binds
\* nothing the later cells read.
L690 ==
  /\ Running("L690")
  /\ pc' = "L780"
  /\ UNCHANGED <<cellvars, dispatchvars, err, ts, resolution, n, emissions, shown, hourly>>

\* n.add("StorageUnit", "battery storage", ..., max_hours=4,
\*       capital_cost=costs.at["battery inverter", "capital_cost"]
\*                    + 4 * costs.at["battery storage", "capital_cost"], ...)
L780 ==
  /\ Running("L780")
  /\ IF ~({"capital_cost", "efficiency"} \subseteq costs.columns
          /\ {"battery inverter", "battery storage"} \subseteq costs.index)
       THEN Raise("KeyError")
     ELSE NetStep("L780",
                  AddStorageUnit(n, "battery storage",
                    StorageUnit("battery storage", Q(4, 1),
                                RAdd(costs.at["battery inverter"]["capital_cost"],
                                     RMul(Q(4, 1), costs.at["battery storage"]["capital_cost"])),
                                costs.at["battery inverter"]["efficiency"],
                                costs.at["battery inverter"]["efficiency"])),
                  "L808")

\* Variant of line 819: max_hours=168.
L808OtherHours ==
  /\ Running("L808")
  /\ LET capital_costs ==
           RAdd(RAdd(costs.at["electrolysis"]["capital_cost"],
                     costs.at["fuel cell"]["capital_cost"]),
                RMul(Q(336, 1), costs.at["hydrogen storage underground"]["capital_cost"]))
     IN  NetStep("L808",
                 AddStorageUnit(n, "hydrogen storage underground",
                   StorageUnit("hydrogen storage underground", Q(168, 1),
                               capital_costs,
                               costs.at["electrolysis"]["efficiency"],
                               costs.at["fuel cell"]["efficiency"])),
                 "L845")

\* capital_costs = costs.at["electrolysis", "capital_cost"]
\*                 + costs.at["fuel cell", "capital_cost"]
\*                 + 336 * costs.at["hydrogen storage underground", "capital_cost"]
\* n.add("StorageUnit", "hydrogen storage underground", ..., max_hours=336,
\*       capital_cost=capital_costs, ...)
L808 ==
  /\ Running("L808")
  /\ IF ~({"capital_cost", "efficiency"} \subseteq costs.columns
          /\ {"electrolysis", "fuel cell", "hydrogen storage underground"}
               \subseteq costs.index)
       THEN Raise("KeyError")
     ELSE LET capital_costs ==
                RAdd(RAdd(costs.at["electrolysis"]["capital_cost"],
                          costs.at["fuel cell"]["capital_cost"]),
                     RMul(Q(336, 1),
                          costs.at["hydrogen storage underground"]["capital_cost"]))
          IN  NetStep("L808",
                      AddStorageUnit(n, "hydrogen storage underground",
                        StorageUnit("hydrogen storage underground", Q(336, 1),
                                    capital_costs,
                                    costs.at["electrolysis"]["efficiency"],
                                    costs.at["fuel cell"]["efficiency"])),
                      "L845")

\* n.optimize(solver_name="highs") on a network with storage units and
\* global constraints: the solver's choice is any capacities and dispatch
\* within the generators' bounds that meet the global constraints.
Optimize(line, next) ==
  /\ Running(line)
  /\ \E cap \in [DOMAIN n.generators -> Capacities],
        lev \in [DOMAIN n.generators -> Levels],
        scap \in [DOMAIN n.storage_units -> StorageCapacities] :
       LET solved ==
             [n EXCEPT
                !.generators = [g \in DOMAIN @ |-> [@[g] EXCEPT !.p_nom_opt = cap[g]]],
                !.storage_units = [u \in DOMAIN @ |-> [@[u] EXCEPT !.p_nom_opt = scap[u]]],
                !.p = [g \in DOMAIN n.generators |->
                         [i \in 1..Len(n.snapshots) |->
                            RMul(lev[g], RMul(PMaxPu(n, g, i), cap[g]))]]]
       IN  /\ Feasible(solved)
           /\ n' = solved
  /\ pc' = next
  /\ UNCHANGED <<cellvars, dispatchvars, err, ts, resolution, emissions, shown, hourly>>

L845 == Optimize("L845", "L909")

\* n.add("GlobalConstraint", "CO2Limit", carrier_attribute="co2_emissions",
\*       sense="<=", constant=0)
L909 ==
  NetStep("L909",
          [n EXCEPT !.global_constraints =
                      ("CO2Limit" :> [constant |-> Q(0, 1),
                                      carrier_attribute |-> "co2_emissions",
                                      sense |-> "<="]) @@ @],
          "L935")

L935 == Optimize("L935", "L974")

\* n.storage_units.p_nom_opt.div(1e3) * n.storage_units.max_hours  # GWh
L974 ==
  /\ Running("L974")
  /\ shown' = EnergyCapacity(n)
  /\ pc' = "L983"
  /\ UNCHANGED <<cellvars, dispatchvars, err, ts, resolution, n, emissions, hourly>>

\* The cell of line 229 is run a second time, once the cell of line 238 has
\* run: the statement of line 229 on the names as they are bound by then.
Rerun229 ==
  /\ Running("L264")
  /\ IF ~({"discount rate", "lifetime"} \subseteq costs.columns) THEN Raise("KeyError")
     ELSE IF annuity.kind # "function" THEN Raise("TypeError")
     ELSE /\ annuity' = [kind |-> "series", s |-> AnnuitySeries(costs)]
          /\ UNCHANGED <<costs, out, pc, err, edits, raw, filled, costs_id, netvars, dispatchvars>>

\* The cell of line 264 is run again once the snapshots are set and before
\* the last profile is bound: ts is the hourly file again.
Rerun264 ==
  /\ pc \in {"L378", "L418", "L439", "L476", "L501", "L519"}
  /\ err = "none"
  /\ ts # hourly
  /\ ts' = hourly
  /\ UNCHANGED <<cellvars, dispatchvars, pc, err, resolution, n, emissions, shown, hourly>>

(***************************************************************************)
(* The cells of 01-pypsa-dispatch.ipynb from line 240 to line 774; pc is D  *)
(* and the line of the next statement.                                     *)
(***************************************************************************)
\* The names these cells leave alone.
othervars == <<cellvars, err, ts, resolution, emissions, shown, hourly, loads>>

DispatchStep(line, net, next) ==
  /\ Running(line)
  /\ n' = net
  /\ pc' = next
  /\ UNCHANGED <<othervars, runs>>

\* n = pypsa.Network()
D240 == DispatchStep("D240", NewNetwork, "D260")

\* n.add("Bus", "A", v_nom=380, carrier="AC")
D260 == DispatchStep("D260", [n EXCEPT !.buses = @ \cup {"A"}], "D261")

\* n.add("Bus", "B", v_nom=380, carrier="AC")
D261 == DispatchStep("D261", [n EXCEPT !.buses = @ \cup {"B"}], "D304")

\* n.add("Carrier", ["coal", "gas", "oil", "hydro", "wind"], co2_emissions=emissions, ...)
D304 ==
  DispatchStep("D304",
               [n EXCEPT !.carriers =
                           [c \in {"coal", "gas", "oil", "hydro", "wind"} |-> emissions_dict[c]]],
               "D335")

\* Variant of line 340: p_nom=120.
D335Small ==
  DispatchStep("D335",
               AddGenerator(n, "B hydro",
                            GeneratorAt("B", "hydro", Q(120, 1), FALSE,
                                        Q(0, 1), Q(0, 1), Q(1, 1))),
               "D359")

\* n.add("Generator", "B hydro", bus="B", carrier="hydro", p_nom=1200):
\* no marginal_cost and no efficiency is given.
D335 ==
  DispatchStep("D335",
               AddGenerator(n, "B hydro",
                            GeneratorAt("B", "hydro", Q(1200, 1), FALSE,
                                        Q(0, 1), Q(0, 1), Q(1, 1))),
               "D359")

\* for tech, p_nom in power_plants["A"].items(): n.add("Generator", f"A {tech}", ...)
\* One pass of the loop: the item after those already added.
D359 ==
  LET k == Cardinality(GeneratorsAt(n, "A")) + 1
      item == power_plants["A"][k]
  IN  /\ k <= Len(power_plants["A"])
      /\ DispatchStep("D359",
                      AddGenerator(n, AName[item.tech],
                                   GeneratorAt("A", item.tech, item.p_nom, FALSE, Q(0, 1),
                                               RDiv(Get(fuel_cost, item.tech, Q(0, 1)),
                                                    Get(efficiency, item.tech, Q(1, 1))),
                                               Get(efficiency, item.tech, Q(1, 1)))),
                      IF k = Len(power_plants["A"]) THEN "D406" ELSE "D359")

\* n.add("Load", name, bus=bus, p_set=loads[bus])
AddLoad(line, name, bus, next) ==
  DispatchStep(line,
               [n EXCEPT !.loads = @ \cup {name},
                         !.load_bus = (name :> bus) @@ @,
                         !.p_set = (name :> [i \in 1..Len(n.snapshots) |-> loads[bus]]) @@ @],
               next)

D406 == AddLoad("D406", "A electricity demand", "A", "D422")

D422 == AddLoad("D422", "B electricity demand", "B", "D456")

\* n.add("Line", "A-B", bus0="A", bus1="B", s_nom=500, x=1, r=1)
D456 ==
  DispatchStep("D456",
               [n EXCEPT !.lines = ("A-B" :> [s_nom |-> Q(500, 1), bus0 |-> "A",
                                              bus1 |-> "B"]) @@ @],
               "D504")

\* n.optimize(): a dispatch of least cost is written to n.generators_t.p; an
\* infeasible problem leaves the network as it is.
Solve(line, next) ==
  /\ Running(line)
  /\ \E d \in LeastCost(n) :
       /\ runs' = Append(runs, d)
       /\ n' = IF d.status = "ok"
                 THEN [n EXCEPT !.p = [g \in DOMAIN d.p |->
                                         [i \in 1..Len(n.snapshots) |-> d.p[g]]]]
               ELSE n
  /\ pc' = next
  /\ UNCHANGED othervars

D504 == Solve("D504", "D613")

\* n.lines.loc["A-B", "s_nom"] = 400
D613 ==
  DispatchStep("D613", [n EXCEPT !.lines["A-B"].s_nom = Q(400, 1)], "D635")

D635 == Solve("D635", "D721")

\* n.lines["s_nom"] = 0.
D721 ==
  DispatchStep("D721",
               [n EXCEPT !.lines = [l \in DOMAIN @ |-> [@[l] EXCEPT !.s_nom = Q(0, 1)]]],
               "D722")

D722 == Solve("D722", "D743")

\* n.generators.loc["A wind", "p_nom"] *= 2
D743 ==
  DispatchStep("D743",
               [n EXCEPT !.generators["A wind"].p_nom = RMul(@, Q(2, 1))],
               "D744")

D744 == Solve("D744", "D765")

\* n.add("Generator", "A nuclear", bus="A", carrier="nuclear", p_nom=1000,
\*       marginal_cost=20)
D765 ==
  DispatchStep("D765",
               AddGenerator(n, "A nuclear",
                            GeneratorAt("A", "nuclear", Q(1000, 1), FALSE,
                                        Q(0, 1), Q(20, 1), Q(1, 1))),
               "D773")

D773 == Solve("D773", "D812")

\* The cells of 01-pypsa-dispatch.ipynb, top to bottom.
RunDispatch ==
  \/ D240 \/ D260 \/ D261 \/ D304 \/ D335 \/ D359 \/ D406 \/ D422 \/ D456
  \/ D504 \/ D613 \/ D635 \/ D721 \/ D722 \/ D743 \/ D744 \/ D765 \/ D773

\* The cells from line 264 on, top to bottom.
RunNet ==
  \/ L264 \/ L289 \/ L290 \/ L321 \/ L337 \/ L353 \/ L378 \/ L418
  \/ L439 \/ L476 \/ L501 \/ L519 \/ L567 \/ L654 \/ L667

\* The cells from line 690 on, top to bottom.
RunStorage ==
  \/ L690 \/ L780 \/ L808 \/ L845 \/ L909 \/ L935 \/ L974

\* The lines after the Cost Normalizer cell.
AfterNormalizer == {"L187", "L197", "L213", "L229", "L238", "L264"}

EditValues == {Q(9, 1)}

\* A later edit of the gas record in the session: costs.at["gas", p] = v.
EditGas ==
  /\ pc \in AfterNormalizer
  /\ err = "none"
  /\ edits < MaxEdits
  /\ \E p \in {"fuel", "CO2 intensity"}, v \in EditValues :
       costs' = AtSet(costs, "gas", p, v)
  /\ edits' = edits + 1
  /\ UNCHANGED <<annuity, out, pc, err, raw, filled, costs_id, netvars, dispatchvars>>

\* The top-to-bottom run of the cells.
Run ==
  \/ L148 \/ L149 \/ L161
  \/ L163 \/ L164 \/ L165 \/ L166
  \/ L187 \/ L197 \/ L213 \/ L229 \/ L238

Next == Run \/ EditGas

\* The session: the run over the tables of Init, with later edits of gas.
Spec == Init /\ [][Next]_vars

\* The run alone, over the tables that vary one unit string.
SpecUnits == InitUnits /\ [][Run]_vars

\* The run up to line 667 on one table, over the time series of line 264,
\* with a second run of that cell in between.
SpecNet == InitNet /\ [][Run \/ RunNet \/ Rerun264]_vars

\* The whole run on one table and one time series, with a second run of the
\* cell of line 229 in between.
SpecStorage == InitStorage /\ [][Run \/ RunNet \/ RunStorage \/ Rerun229]_vars

\* The run alone, over the tables that vary discount rates and lifetimes.
SpecRates == InitRates /\ [][Run]_vars

\* The run of 01-pypsa-dispatch.ipynb, over the loads of InitDispatch.
SpecDispatch == InitDispatch /\ [][RunDispatch]_vars

(***************************************************************************)
(* Properties.                                                             *)
(***************************************************************************)
Thousand == Q(1000, 1)

\* The propagation targets and the two fields they borrow from gas.
GasFired == {"OCGT", "CCGT"}
Borrowed == {"fuel", "CO2 intensity"}

\* The technologies and (technology, parameter) pairs of the table as read.
RawTechs == {raw[i].tech : i \in 1..Len(raw)}
RawHas(t, p) ==
  \E i \in 1..Len(raw) : raw[i].tech = t /\ raw[i].param = p /\ ~IsNaN(raw[i].value)

\* C1: the annuity factor is defined for a zero discount rate: for every
\* lifetime n > 0, annuity(0, n) is 1/n (no division by zero, no NaN).
\* Stated of every call line 229 makes.
C1_AnnuityAtZeroRate ==
  annuity.kind = "series" =>
    \A t \in DOMAIN annuity.s :
       LET r == costs.at[t]["discount rate"]
           life == costs.at[t]["lifetime"]
       IN  (IsZero(r) /\ IsRat(life) /\ ~IsZero(life)) =>
             REq(annuity.s[t], RDiv(Q(1, 1), life))

\* C2: the unit rescale is idempotent: applied to its own output (the table
\* lines 148-149 leave), it changes no value and no unit string.
C2_RescaleIdempotent ==
  pc = "L161" => ReplaceUnits(ScaleValues(costs.rows)) = costs.rows

\* The rescale has acted on a unit that holds "/kW" twice.
C2_Witness ==
  /\ pc = "L161"
  /\ \E i \in 1..Len(raw) :
       /\ \E j, k \in 1..Len(raw[i].unit) :
            j < k /\ MatchAt(raw[i].unit, KW, j) /\ MatchAt(raw[i].unit, KW, k)
       /\ costs.rows[i].value = RMul(raw[i].value, Thousand)

\* u with the k of every "/kW" turned into M, character by character.
IsRewritten(u, v) ==
  /\ Len(v) = Len(u)
  /\ \A j \in 1..Len(u) :
       v[j] = IF MatchAt(u, KW, j - 1) THEN "M" ELSE u[j]

\* C3: the rescale multiplies by exactly 1000 the value of every row whose
\* unit contains "/kW" and rewrites "/kW" to "/MW" in that unit; every other
\* row keeps its value and unit; afterwards no unit contains "/kW".
C3_RescaleRows ==
  pc = "L161" =>
    /\ Len(costs.rows) = Len(raw)
    /\ \A i \in 1..Len(raw) :
         LET r == raw[i]
             c == costs.rows[i]
         IN  /\ c.tech = r.tech /\ c.param = r.param
             /\ IF Contains(r.unit, KW)
                  THEN /\ c.value.num = BigMul(r.value.num, <<1000>>)
                       /\ c.value.den = r.value.den
                       /\ IsRewritten(r.unit, c.unit)
                ELSE c = r
             /\ ~Contains(c.unit, KW)

\* The rescale has run on a table with a "/kW" row of non-zero value and a
\* row of another unit.
C3_Witness ==
  /\ pc = "L161"
  /\ \E i, j \in 1..Len(raw) :
       /\ Contains(raw[i].unit, KW) /\ ~IsZero(raw[i].value)
       /\ costs.rows[i].value # raw[i].value
       /\ ~Contains(raw[j].unit, KW) /\ costs.rows[j] = raw[j]

\* C4: after default-filling every technology of the table has a present
\* value for each of the eight fields, and a field missing in the raw table
\* holds its default.
C4_AllFieldsPresent ==
  costs.kind = "wide" =>
    \A t \in costs.index : \A p \in DOMAIN defaults :
       /\ p \in costs.columns
       /\ ~IsNaN(costs.at[t][p])
       /\ (pc = "L163" /\ ~RawHas(t, p)) => costs.at[t][p] = defaults[p]

\* The value line 161 must leave for a raw row: the rescaled raw value.
Normalised(r) ==
  IF Contains(r.unit, KW) THEN RMul(r.value, Thousand) ELSE r.value

\* C5: default-filling never overwrites a present value: a field that has a
\* value in the raw table holds that (unit-normalised) value after filling.
C5_FillKeepsPresent ==
  filled.kind = "wide" =>
    \A i \in 1..Len(raw) :
       ~IsNaN(raw[i].value) =>
          filled.at[raw[i].tech][raw[i].param] = Normalised(raw[i])

\* Filling has run on a table with an explicit efficiency of 0.42 (not the
\* default 1) beside a field it had to fill.
C5_Witness ==
  /\ filled.kind = "wide"
  /\ "OCGT" \in filled.index /\ "efficiency" \in filled.columns
  /\ RawHas("OCGT", "efficiency")
  /\ REq(filled.at["OCGT"]["efficiency"], Q(42, 100))
  /\ \E t \in filled.index :
       ~RawHas(t, "efficiency") /\ filled.at[t]["efficiency"] = defaults["efficiency"]

\* C6: after the Cost Normalizer cell, OCGT and CCGT hold the fuel cost and
\* CO2 intensity recorded for gas, whatever they held before; no other field
\* of theirs and no other technology has changed (a technology the table
\* lacked has no value in its other fields).
C6_Propagation ==
  (pc \in AfterNormalizer /\ edits = 0) =>
    /\ \A t \in GasFired : \A p \in Borrowed :
         costs.at[t][p] = filled.at["gas"][p]
    /\ costs.index = filled.index \cup GasFired
    /\ \A t \in costs.index : \A p \in filled.columns :
         ~(t \in GasFired /\ p \in Borrowed) =>
            costs.at[t][p] = IF t \in filled.index THEN filled.at[t][p] ELSE NaN

\* The copy has replaced a fuel cost OCGT had of its own.
C6_Witness ==
  /\ pc = "L187" /\ edits = 0
  /\ RawHas("OCGT", "fuel")
  /\ filled.at["OCGT"]["fuel"] # filled.at["gas"]["fuel"]
  /\ costs.at["OCGT"]["fuel"] = filled.at["gas"]["fuel"]
  /\ ~IsZero(costs.at["OCGT"]["CO2 intensity"])

C8_MissingGasFails ==
  ("gas" \notin RawTechs /\ pc = "L163" /\ err # "none") =>
     /\ err = "MissingReferenceError"
     /\ costs.kind # "wide"

\* The capacity bases a unit names after normalisation ("/kW" reads "/MW").
Bases(u) ==
  {IF c = "k" THEN "M" ELSE c : c \in {x \in {"k", "M", "G"} : Contains(u, <<"/", x, "W">>)}}

MixedBases(t) ==
  \E i, j \in 1..Len(raw) :
     /\ raw[i].tech = t /\ raw[j].tech = t
     /\ Bases(raw[i].unit) # {} /\ Bases(raw[j].unit) # {}
     /\ Bases(raw[i].unit) # Bases(raw[j].unit)

\* C9: when the rows of one technology mix unit bases after normalisation,
\* the Cost Normalizer fails (InconsistentUnitError) and yields no table.
C9_MixedUnitsFail ==
  (\E t \in RawTechs : MixedBases(t)) =>
     /\ costs.kind # "wide"
     /\ pc \in {"L148", "L149", "L161"}
     /\ err \in {"none", "InconsistentUnitError"}

\* C10: out-of-domain parameters are rejected before any derived field is
\* computed, so once the marginal cost exists no technology of the table has
\* an efficiency of zero and every marginal cost is a finite number.
C10_DomainChecked ==
  "marginal_cost" \in costs.columns =>
    \A t \in filled.index :
       /\ ~IsZero(filled.at[t]["efficiency"])
       /\ IsRat(costs.at[t]["marginal_cost"])

\* A derived value of technology t was computed from the row t has now: the
\* later edits touch the gas row only.
Fresh(t) == t # "gas" \/ edits = 0

\* C11: for every technology the marginal cost is the variable operating
\* cost plus the fuel cost divided by the efficiency (stated without the
\* division: (marginal cost - VOM) * efficiency = fuel), and with VOM and
\* efficiency fixed, doubling the fuel cost doubles marginal cost - VOM;
\* read where line 213 has just run.
C11_MarginalCost ==
  pc = "L229" =>
    \A t \in {u \in costs.index : Fresh(u)} :
       LET vom == costs.at[t]["VOM"]
           fuel == costs.at[t]["fuel"]
           eff == costs.at[t]["efficiency"]
           mc == costs.at[t]["marginal_cost"]
           doubled == MarginalCost(AtSet(costs, t, "fuel", RAdd(fuel, fuel)))[t]
       IN  IF IsRat(vom) /\ IsRat(fuel) /\ IsRat(eff) /\ ~IsZero(eff)
             THEN /\ IsRat(mc)
                  /\ REq(RMul(RSub(mc, vom), eff), fuel)
                  /\ REq(RSub(doubled, vom), RMul(Q(2, 1), RSub(mc, vom)))
           ELSE ~IsRat(mc)

\* Line 213 has given OCGT (VOM 4, fuel 2, efficiency 0.42) 4 + 2/0.42.
C11_Witness ==
  /\ pc = "L229"
  /\ REq(costs.at["OCGT"]["VOM"], Q(4, 1))
  /\ REq(costs.at["OCGT"]["fuel"], Q(2, 1))
  /\ REq(costs.at["OCGT"]["efficiency"], Q(42, 100))
  /\ REq(costs.at["OCGT"]["marginal_cost"], Q(184, 21))

\* C12: for every technology (discount rate in [0, 1), lifetime > 0) the
\* capital cost is (annuity factor + FOM / 100) * investment, and it is 0
\* when the investment is 0.
C12_CapitalCost ==
  "capital_cost" \in costs.columns =>
    \A t \in costs.index :
       LET r == costs.at[t]["discount rate"]
           life == costs.at[t]["lifetime"]
           fom == costs.at[t]["FOM"]
           inv == costs.at[t]["investment"]
           cc == costs.at[t]["capital_cost"]
       IN  (/\ IsRat(r) /\ RLess(r, Q(1, 1))
            /\ IsRat(life) /\ ~IsZero(life)
            /\ IsRat(fom) /\ IsRat(inv)) =>
              /\ IsRat(cc)
              /\ IsRat(annuity.s[t])
              /\ REq(cc, RMul(RAdd(annuity.s[t], RDiv(fom, Q(100, 1))), inv))
              /\ IsZero(inv) => IsZero(cc)

\* C13: at r = 0.07, n = 20 the annuity function returns a value within
\* 1e-4 of 0.09439, and for every r > 0 and n > 0 it is called with it
\* returns r / (1 - (1+r)^-n): stated as a * ((1+r)^n - 1) = r * (1+r)^n for
\* the lifetimes up to MaxLifetime, and as r < a <= 1 + r for all of them.
\* Read where line 197 and line 229 have just run.
C13_AnnuityValue ==
  /\ pc = "L213" =>
       /\ RLess(Q(9429, 100000), out)
       /\ RLess(out, Q(9449, 100000))
  /\ pc = "L238" =>
       \A t \in DOMAIN annuity.s :
          LET r == costs.at[t]["discount rate"]
              life == costs.at[t]["lifetime"]
              a == annuity.s[t]
              g == RPow(RAdd(Q(1, 1), r), life)
          IN  (IsRat(r) /\ ~IsZero(r) /\ IsRat(life) /\ ~IsZero(life)) =>
                /\ IsRat(a)
                /\ RLess(r, a) /\ ~RLess(RAdd(Q(1, 1), r), a)
                /\ RLess(life, Q(MaxLifetime + 1, 1)) =>
                     REq(RMul(a, RSub(g, Q(1, 1))), RMul(r, g))

\* Line 197 and line 229 have run, the latter on a technology with a
\* discount rate of 0.1 and a lifetime of 20 beside the defaults.
C13_Witness ==
  /\ pc = "L238"
  /\ IsRat(out)
  /\ \E t, u \in DOMAIN annuity.s :
       /\ REq(costs.at[t]["discount rate"], Q(1, 10))
       /\ REq(costs.at[t]["lifetime"], Q(20, 1))
       /\ REq(costs.at[u]["discount rate"], Q(7, 100))
       /\ REq(costs.at[u]["lifetime"], Q(25, 1))
       /\ IsRat(annuity.s[t]) /\ IsRat(annuity.s[u])

\* The discount rate and lifetime of technology t are in the valid domain.
InDomain(t) ==
  LET r == costs.at[t]["discount rate"]
      life == costs.at[t]["lifetime"]
  IN  /\ IsRat(r) /\ ~IsZero(r) /\ RLess(r, Q(1, 1))
      /\ IsRat(life) /\ ~RLess(life, Q(1, 1))

\* C14: over 0 < r < 1 and n >= 1 the annuity factor grows with the discount
\* rate at a fixed lifetime and falls with the lifetime at a fixed discount
\* rate; stated of the calls line 229 makes for the rows of one table.
C14_AnnuityMonotone ==
  pc = "L238" =>
    \A t, u \in {x \in costs.index : InDomain(x)} :
       LET rt == costs.at[t]["discount rate"]
           ru == costs.at[u]["discount rate"]
           nt == costs.at[t]["lifetime"]
           nu == costs.at[u]["lifetime"]
       IN  /\ (REq(nt, nu) /\ RLess(rt, ru)) => RLess(annuity.s[t], annuity.s[u])
           /\ (REq(rt, ru) /\ RLess(nt, nu)) => RLess(annuity.s[u], annuity.s[t])

\* Line 229 has run on two rows of equal lifetime and different discount
\* rate, and on two rows of equal discount rate and different lifetime.
C14_Witness ==
  /\ pc = "L238"
  /\ REq(costs.at["OCGT"]["lifetime"], costs.at["onwind"]["lifetime"])
  /\ RLess(costs.at["OCGT"]["discount rate"], costs.at["onwind"]["discount rate"])
  /\ RLess(annuity.s["OCGT"], annuity.s["onwind"])
  /\ REq(costs.at["OCGT"]["discount rate"], costs.at["gas"]["discount rate"])
  /\ RLess(costs.at["OCGT"]["lifetime"], costs.at["gas"]["lifetime"])
  /\ RLess(annuity.s["gas"], annuity.s["OCGT"])

\* The table with every row but that of t emptied.
OnlyRow(w, t) ==
  Wide(w.index, w.columns,
       [u \in w.index |-> [p \in w.columns |-> IF u = t THEN w.at[u][p] ELSE NaN]])

C16_NoMutation ==
  [][(costs_id' = costs_id /\ edits' = edits) => costs' = costs]_vars

\* The lines past the solve of line 567.
Solved == {"L654", "L667", "L690"}

\* The generators with a capacity-factor profile and the column each takes.
Variable == {"wind", "solar"}
ProfileOf(f, g) == IF g = "wind" THEN f.wind_pu ELSE f.pv_pu

\* The capacity factor of generator g at the i-th snapshot: the value of its
\* column of the file at that snapshot's timestamp.
FactorAt(g, i) == Reindex(hourly.index, ProfileOf(hourly, g), n.snapshots)[i]

\* C17: the upper generation bound of a variable generator at each snapshot
\* is its capacity factor at that snapshot times its nominal capacity: the
\* p_max_pu the network holds is the capacity factor, and the dispatch of a
\* solve is at most their product.
C17_UpperBound ==
  pc \in Solved =>
    \A g \in Variable : \A i \in 1..Len(n.snapshots) :
       /\ n.p_max_pu[g][i] = FactorAt(g, i)
       /\ ~RLess(RMul(FactorAt(g, i), n.generators[g].p_nom_opt), n.p[g][i])

\* Profile [0.1, 0.5, 0.9] over 3 snapshots and capacity 1000: a dispatch at
\* the upper bound is [100, 500, 900].
C17_Witness ==
  /\ pc \in Solved
  /\ Len(n.snapshots) = 3
  /\ n.p_max_pu["wind"] = <<Q(1, 10), Q(1, 2), Q(9, 10)>>
  /\ n.generators["wind"].p_nom_opt = Q(1000, 1)
  /\ REq(n.p["wind"][1], Q(100, 1))
  /\ REq(n.p["wind"][2], Q(500, 1))
  /\ REq(n.p["wind"][3], Q(900, 1))

\* The lines up to the one that binds the wind profile.
UpToWind ==
  {"L148", "L149", "L161", "L163", "L164", "L165", "L166", "L187", "L197",
   "L213", "L229", "L238", "L264", "L289", "L290", "L321", "L337", "L353",
   "L378", "L418", "L439", "L476", "L501"}

\* C18: a capacity-factor profile whose index is not the snapshots of the
\* network is rejected with ProfileLengthMismatchError: the run does not get
\* past line 501 with such a profile, and stops there with no other error.
C18_MismatchRejected ==
  (n.snapshots # <<>> /\ ts.index # n.snapshots) =>
     /\ pc \in UpToWind
     /\ pc = "L501" => err \in {"none", "ProfileLengthMismatchError"}

\* C19: with the time series resampled to one row per resolution hours,
\* every snapshot weighting is resolution (not the default 1) when the
\* network is solved and when the emissions are totalled.
C19_WeightsSet ==
  pc \in {"L567"} \cup Solved =>
    /\ resolution >= 1
    /\ \A i \in 1..(Len(n.snapshots) - 1) :
         n.snapshots[i + 1] - n.snapshots[i] = resolution
    /\ Len(n.snapshot_weightings) = Len(n.snapshots)
    /\ \A i \in 1..Len(n.snapshots) :
         n.snapshot_weightings[i] = Q(resolution, 1)

\* A network over three 3-hourly snapshots of a nine-hour file is solved.
C19_Witness ==
  /\ pc = "L654"
  /\ Len(hourly.index) = 9
  /\ n.snapshots = <<0, 3, 6>>
  /\ n.snapshot_weightings = <<Q(3, 1), Q(3, 1), Q(3, 1)>>

\* The sum of the values of the function f.
RECURSIVE SumOf(_, _)
SumOf(f, S) ==
  IF S = {} THEN Q(0, 1)
  ELSE LET x == CHOOSE y \in S : TRUE
       IN  RAdd(f[x], SumOf(f, S \ {x}))

\* The generators whose carrier the network holds a CO2 intensity for.
Registered == {g \in DOMAIN n.generators : n.generators[g].carrier \in DOMAIN n.carriers}

\* The weighted emissions of generator g over the snapshots.
EmissionsOf(g) ==
  SumOf([i \in 1..Len(n.snapshots) |->
           RMul(n.snapshot_weightings[i],
                RMul(RDiv(n.p[g][i], n.generators[g].efficiency),
                     n.carriers[n.generators[g].carrier]))],
        1..Len(n.snapshots))

\* C20: the total line 667 reports (in Mt, so times 1e6) is the sum over the
\* snapshots of weight x sum over the generators of dispatch / efficiency x
\* CO2 intensity of the generator's carrier (a generator whose carrier has
\* none registered adds nothing); with the dispatch held, halving every
\* weight halves the total.
C20_EmissionsTotal ==
  pc = "L690" =>
    /\ REq(RMul(shown, Q(1000000, 1)),
           SumOf([g \in Registered |-> EmissionsOf(g)], Registered))
    /\ REq(Total([i \in 1..Len(n.snapshots) |-> RDiv(n.snapshot_weightings[i], Q(2, 1))],
                 emissions),
           RDiv(shown, Q(2, 1)))

\* A total other than 0 is reported for weights of 3.
C20_Witness ==
  /\ pc = "L690"
  /\ IsRat(shown) /\ ~IsZero(shown)
  /\ Len(n.snapshots) = 3
  /\ \A i \in 1..3 : n.snapshot_weightings[i] = Q(3, 1)
  /\ ~IsZero(n.p["OCGT"][1]) /\ ~IsZero(n.p["wind"][2])

\* C21: for every storage unit the energy capacity line 974 derives (in
\* GWh, from a power capacity in MW, so times 1e3) is max_hours times the
\* power capacity: max_hours 4 and a power capacity of 100 give 400.
C21_EnergyCapacity ==
  pc = "L983" =>
    \A u \in DOMAIN n.storage_units :
       /\ u \in DOMAIN shown
       /\ REq(RMul(shown[u], Thousand),
              RMul(n.storage_units[u].max_hours, n.storage_units[u].p_nom_opt))
       /\ (n.storage_units[u].max_hours = Q(4, 1)
           /\ n.storage_units[u].p_nom_opt = Q(100, 1)) =>
             REq(RMul(shown[u], Thousand), Q(400, 1))

\* The battery is solved to a power capacity of 100 and line 974 has shown
\* its energy capacity.
C21_Witness ==
  /\ pc = "L983"
  /\ n.storage_units["battery storage"].max_hours = Q(4, 1)
  /\ n.storage_units["battery storage"].p_nom_opt = Q(100, 1)
  /\ REq(shown["battery storage"], Q(2, 5))

\* What n.add and the assignments to n give a network: everything but the
\* results a solve writes (p, p_nom_opt).
Assembled(net) ==
  [net EXCEPT !.p = <<>>,
              !.generators = [g \in DOMAIN @ |-> [@[g] EXCEPT !.p_nom_opt = Q(0, 1)]],
              !.storage_units = [u \in DOMAIN @ |-> [@[u] EXCEPT !.p_nom_opt = Q(0, 1)]]]

\* The lines past the first solve (line 567).
AfterSolve ==
  {"L654", "L667", "L690", "L780", "L808", "L845", "L909", "L935", "L974", "L983"}

\* C22: a network that has been handed to the solver is never modified: no
\* step after the first solve changes a component or constraint of n (the
\* only statement that constructs a network is line 321, before the solve).
C22_NeverModified ==
  [][(pc \in AfterSolve) => (Assembled(n)' = Assembled(n))]_vars

\* The value line 161 must leave for field p of technology t: the rescaled
\* value of its row of the table as read, or the default.
Filled(t, p) ==
  IF RawHas(t, p)
    THEN Normalised(raw[CHOOSE i \in 1..Len(raw) : raw[i].tech = t /\ raw[i].param = p])
  ELSE defaults[p]

\* C23: the steps run in the order normalisation, filling, propagation,
\* marginal cost: the marginal cost of OCGT that line 213 leaves is the
\* normalised (or default) VOM of OCGT plus the normalised fuel cost of gas
\* as read, divided by the normalised (or default) efficiency of OCGT.
C23_PipelineOrder ==
  pc = "L229" =>
    LET vom == Filled("OCGT", "VOM")
        fuel == Filled("gas", "fuel")
        eff == Filled("OCGT", "efficiency")
    IN  (IsRat(vom) /\ IsRat(fuel) /\ IsRat(eff) /\ ~IsZero(eff)) =>
          REq(costs.at["OCGT"]["marginal_cost"], RAdd(vom, RDiv(fuel, eff)))

\* Line 213 has run on a table whose gas fuel cost was read per kWh (so
\* rescaled) and whose OCGT rows give a VOM and an efficiency.
C23_Witness ==
  /\ pc = "L229"
  /\ \E i \in 1..Len(raw) :
       raw[i].tech = "gas" /\ raw[i].param = "fuel" /\ raw[i].unit = EurPerKWh
  /\ RawHas("OCGT", "VOM") /\ RawHas("OCGT", "efficiency")
  /\ ~IsZero(Filled("gas", "fuel"))
  /\ IsRat(costs.at["OCGT"]["marginal_cost"])

\* C24: the cell of line 229 can be run a second time after line 238: where
\* both have run, the name annuity holds the annuity of every technology and
\* no exception was raised.
C24_Recomputed ==
  pc = "L264" =>
    /\ err = "none"
    /\ annuity.kind = "series"
    /\ annuity.s = AnnuitySeries(costs)

\* C25: once CO2Limit is in the network, a solve returns zero output at
\* every snapshot from every generator whose carrier has a positive CO2
\* intensity, and OCGT is one: the intensity of its carrier is that of gas.
C25_NoEmitters ==
  pc = "L974" =>
    /\ "CO2Limit" \in DOMAIN n.global_constraints
    /\ n.generators["OCGT"].carrier \in DOMAIN n.carriers
    /\ n.carriers[n.generators["OCGT"].carrier] = costs.at["gas"]["CO2 intensity"]
    /\ ~IsZero(n.carriers[n.generators["OCGT"].carrier])
    /\ \A g \in Registered :
         (IsRat(n.carriers[n.generators[g].carrier])
          /\ ~IsZero(n.carriers[n.generators[g].carrier])) =>
            \A i \in 1..Len(n.snapshots) : IsZero(n.p[g][i])

\* The solve under CO2Limit has built OCGT and left it idle while solar
\* runs.
C25_Witness ==
  /\ pc = "L974"
  /\ n.generators["OCGT"].p_nom_opt = Q(1000, 1)
  /\ IsZero(n.p["OCGT"][1])
  /\ ~IsZero(n.p["solar"][1])

\* C28: every generator and every storage unit of the network names a
\* carrier that the network holds (one added by n.add("Carrier", ...)).
C28_CarriersRegistered ==
  /\ \A g \in DOMAIN n.generators : n.generators[g].carrier \in DOMAIN n.carriers
  /\ \A u \in DOMAIN n.storage_units : n.storage_units[u].carrier \in DOMAIN n.carriers

\* The capital cost per unit of power that lines 783 and 809-810 give a
\* storage unit.
PowerCost(u) ==
  IF u = "battery storage" THEN costs.at["battery inverter"]["capital_cost"]
  ELSE RAdd(costs.at["electrolysis"]["capital_cost"],
            costs.at["fuel cell"]["capital_cost"])

\* C29: the capital cost of every storage unit is its cost per unit of power
\* plus max_hours times the capital cost per unit of energy of its
\* technology: the factor is the unit's max_hours, 4 for the battery and 336
\* for the hydrogen storage.
C29_FactorIsMaxHours ==
  pc = "L845" =>
    /\ DOMAIN n.storage_units = {"battery storage", "hydrogen storage underground"}
    /\ n.storage_units["battery storage"].max_hours = Q(4, 1)
    /\ n.storage_units["hydrogen storage underground"].max_hours = Q(336, 1)
    /\ \A u \in DOMAIN n.storage_units :
         REq(n.storage_units[u].capital_cost,
             RAdd(PowerCost(u),
                  RMul(n.storage_units[u].max_hours,
                       costs.at[n.storage_units[u].carrier]["capital_cost"])))

\* Both storage units are in the network, each with a capital cost per unit
\* of energy other than 0.
C29_Witness ==
  /\ pc = "L845"
  /\ \A u \in {"battery storage", "hydrogen storage underground"} :
       /\ u \in DOMAIN n.storage_units
       /\ IsRat(costs.at[u]["capital_cost"]) /\ ~IsZero(costs.at[u]["capital_cost"])
       /\ IsRat(n.storage_units[u].capital_cost)

\* C26: every generator of the two-bus example has a zero lower bound, a
\* fixed p_nom (or the extendable flag) and, for the five technologies of
\* lines 100-130, the marginal cost fuel cost / efficiency of its technology
\* (no variable cost is given): 1 / 1 for 'B hydro'.
C26_GeneratorRecords ==
  \A g \in DOMAIN n.generators :
     /\ IsZero(n.generators[g].p_min_pu)
     /\ n.generators[g].p_nom_extendable \/ IsRat(n.generators[g].p_nom)
     /\ n.generators[g].carrier \in DOMAIN fuel_cost =>
          REq(n.generators[g].marginal_cost,
              RDiv(fuel_cost[n.generators[g].carrier],
                   efficiency[n.generators[g].carrier]))

\* The outputs of generator g in the k-th solve.
Output(k, g) == runs[k].p[g]

\* C27: the second solve, with line A-B lowered from 500 to 400, gives the
\* hydro plant at B a lower and the gas plant at A a higher output than the
\* first, and the generators' outputs still add up to the loads, at each
\* bus within the line rating.
C27_LowerRating ==
  Len(runs) >= 2 =>
    /\ runs[1].s_nom = Q(500, 1) /\ runs[2].s_nom = Q(400, 1)
    /\ runs[1].status = "ok" /\ runs[2].status = "ok"
    /\ RLess(Output(2, "B hydro"), Output(1, "B hydro"))
    /\ RLess(Output(1, "A gas"), Output(2, "A gas"))
    /\ REq(Sum(runs[2].p, DOMAIN runs[2].p), RAdd(loads["A"], loads["B"]))
    /\ REq(Output(2, "B hydro"), RAdd(loads["B"], runs[2].s_nom))

\* The loads of lines 194-197 are solved at both ratings: hydro gives 1150
\* and then 1050, gas 1500 and then 1600.
C27_Witness ==
  /\ Len(runs) = 2
  /\ loads = [A |-> Q(42000, 1), B |-> Q(650, 1)]
  /\ REq(Output(1, "B hydro"), Q(1150, 1)) /\ REq(Output(2, "B hydro"), Q(1050, 1))
  /\ REq(Output(1, "A gas"), Q(1500, 1)) /\ REq(Output(2, "A gas"), Q(1600, 1))

\* C30: every solve of the two-bus example finds the problem feasible, and
\* whenever the line is in the network the load at each bus is within the
\* capacity installed at that bus plus the line rating, also at rating 0.
C30_StaysFeasible ==
  /\ \A k \in 1..Len(runs) : runs[k].status = "ok"
  /\ "A-B" \in DOMAIN n.lines =>
       \A b \in n.buses :
          ~RLess(RAdd(CapacityAt(n, b), n.lines["A-B"].s_nom), LoadAt(n, b))

\* All five solves have run: at the ratings 500, 400 and 0, with the wind
\* capacity doubled and with the nuclear plant.
C30_Witness ==
  /\ Len(runs) = 5
  /\ runs[1].s_nom = Q(500, 1) /\ runs[2].s_nom = Q(400, 1)
  /\ \A k \in 3..5 : IsZero(runs[k].s_nom)
  /\ n.generators["A wind"].p_nom = Q(6000, 1)
  /\ "A nuclear" \in DOMAIN n.generators
  /\ \A k \in 1..5 : runs[k].status = "ok"
====
